---- MODULE Spec2Model ----
(***************************************************************************)
(* Model of src/lab07/genetical_algo.py: the chromosome decoders           *)
(* (BinaryEncoding, GrayEncoding) and the parent selection strategies      *)
(* (RouletteSelection, ThresholdSelection).                                 *)
(*                                                                         *)
(* A caller owns one encoding object, one chromosome array, one selection  *)
(* object and one population with its fitness vector, and calls the        *)
(* methods of the module on them.  `op` names the last call, `err` the     *)
(* exception it raised ("none" when it returned), and the remaining        *)
(* variables hold what the call computed.                                  *)
(*                                                                         *)
(* Python floats are modelled as binary floating point numbers with        *)
(* round-to-nearest-even, `Precision` significand bits and a smallest      *)
(* positive value of 2^-FracBits (binary64 has 53 and 2^-1074).  A float   *)
(* is an integer count of 2^-FracBits.  The roundings the model shows      *)
(* occur in binary64 at other inputs, e.g. -3.0 + (-0.97 - -3.0) is        *)
(* -0.9699999999999998, 28 / 100 * 25 is 7.000000000000001 and             *)
(* 5e-324 / 100 is 0.0.                                                    *)
(*                                                                         *)
(* Chromosomes are integer arrays; populations and fitness vectors are     *)
(* not empty.  The random generator is a nondeterministic choice among     *)
(* the indices it can draw.                                                *)
(***************************************************************************)
EXTENDS Integers, Sequences, FiniteSets, TLC

VARIABLES
    enc,          \* the encoding object: kind, length, x_min, x_max
    chromosome,   \* the caller's chromosome array
    binary,       \* the array gray_to_binary returned (bin_bits in decode)
    num,          \* <<int(bits, 2)>>, or <<>> when it was not computed
    value,        \* <<the float decode returned>>, or <<>> when it returned none
    sel,          \* the selection object: kind, gamma
    individuals,  \* the population: a list of Individual objects
    fitness,      \* the fitness vector
    cutoff,       \* <<cutoff>> of ThresholdSelection.select, or <<>>
    top_idx,      \* top_idx of ThresholdSelection.select
    chosen,       \* the indices drawn (idx in RouletteSelection.select)
    result,       \* <<the list select returned>>, or <<>> when it returned none
    op,           \* the last call
    err           \* the exception the last call raised, or "none"

encVars == <<enc, chromosome, binary, num, value>>
selVars == <<sel, individuals, fitness, cutoff, top_idx, chosen, result>>
vars == <<enc, chromosome, binary, num, value,
          sel, individuals, fitness, cutoff, top_idx, chosen, result, op, err>>

(* ------------------------------ bounds --------------------------------- *)
MaxLen == 4
MaxPop == 3
Precision == 7
FracBits == 10

(* ------------------------- Python float arithmetic --------------------- *)
RECURSIVE Pow2(_)
Pow2(k) == IF k <= 0 THEN 1 ELSE 2 * Pow2(k - 1)

Unit == Pow2(FracBits)

Abs(x) == IF x < 0 THEN -x ELSE x

\* n/d (n >= 0, d > 0) to the nearest integer, ties to the even one
RoundEven(n, d) ==
    LET q == n \div d
        r == n % d
    IN  IF 2 * r < d THEN q
        ELSE IF 2 * r > d THEN q + 1
        ELSE IF q % 2 = 0 THEN q ELSE q + 1

\* the least e >= 0 with n/d < 2^(Precision + e)
RECURSIVE Scale(_, _, _)
Scale(n, d, e) == IF n < Pow2(Precision + e) * d THEN e ELSE Scale(n, d, e + 1)

\* the float nearest to the rational n/d counts of 2^-FracBits (d > 0)
Round(n, d) ==
    LET m == Abs(n)
        e == Scale(m, d, 0)
        r == RoundEven(m, d * Pow2(e)) * Pow2(e)
    IN  IF n < 0 THEN -r ELSE r

\* the number of trailing zero bits of x # 0
RECURSIVE Trailing(_)
Trailing(x) == IF x % 2 # 0 THEN 0 ELSE 1 + Trailing(x \div 2)

FloatOf(k) == Round(k * Unit, 1)
FAdd(x, y) == Round(x + y, 1)
FSub(x, y) == Round(x - y, 1)
\* x * y, computed on the odd parts of x and y so that no product exceeds
\* 2^(2 * Precision)
FMul(x, y) ==
    IF x = 0 \/ y = 0 THEN 0
    ELSE LET ex == Trailing(x)
             ey == Trailing(y)
             m  == (x \div Pow2(ex)) * (y \div Pow2(ey))
             s  == ex + ey - FracBits
         IN  IF s >= 0 THEN Round(m * Pow2(s), 1) ELSE Round(m, Pow2(-s))
\* int / int (true division, correctly rounded), d > 0
IntTrueDiv(n, d) == Round(n * Unit, d)
\* float / int, d > 0
FDivInt(x, d) == Round(x, d)
\* int(np.ceil(x))
CeilInt(x) == -((-x) \div Unit)

(* ------------------------------ strings -------------------------------- *)
Digit(k) == CASE k = 0 -> "0" [] k = 1 -> "1" [] k = 2 -> "2" [] k = 3 -> "3"
              [] k = 4 -> "4" [] k = 5 -> "5" [] k = 6 -> "6" [] k = 7 -> "7"
              [] k = 8 -> "8" [] k = 9 -> "9"

\* str(k) as a sequence of characters
RECURSIVE StrNat(_)
StrNat(k) == IF k < 10 THEN <<Digit(k)>> ELSE StrNat(k \div 10) \o <<Digit(k % 10)>>

StrInt(k) == IF k < 0 THEN <<"-">> \o StrNat(-k) ELSE StrNat(k)

\* "".join(str(int(b)) for b in chromosome)
RECURSIVE turn_to_bits(_)
turn_to_bits(c) == IF c = <<>> THEN <<>> ELSE StrInt(Head(c)) \o turn_to_bits(Tail(c))

RECURSIVE Base2(_, _)
Base2(s, acc) ==
    IF s = <<>> THEN acc
    ELSE Base2(Tail(s), 2 * acc + (IF Head(s) = "1" THEN 1 ELSE 0))

IsBinaryDigits(s) == s # <<>> /\ \A i \in 1..Len(s) : s[i] \in {"0", "1"}

\* int(bits, 2): an optional sign and at least one binary digit, else ValueError
ParseInt2(s) ==
    IF s # <<>> /\ Head(s) = "-"
    THEN IF IsBinaryDigits(Tail(s))
         THEN [err |-> "none", val |-> -Base2(Tail(s), 0)]
         ELSE [err |-> "ValueError", val |-> 0]
    ELSE IF IsBinaryDigits(s)
         THEN [err |-> "none", val |-> Base2(s, 0)]
         ELSE [err |-> "ValueError", val |-> 0]

(* ------------------------------ encodings ------------------------------ *)
RECURSIVE XorNat(_, _)
XorNat(a, b) ==
    IF a = 0 THEN b
    ELSE IF b = 0 THEN a
    ELSE ((a + b) % 2) + 2 * XorNat(a \div 2, b \div 2)

\* a ^ b on Python/numpy integers (two's complement: -x - 1 is ~x)
BitXor(a, b) ==
    IF a >= 0 /\ b >= 0 THEN XorNat(a, b)
    ELSE IF a < 0 /\ b < 0 THEN XorNat(-a - 1, -b - 1)
    ELSE IF a < 0 THEN -XorNat(-a - 1, b) - 1
    ELSE -XorNat(a, -b - 1) - 1

\* for i in range(from, len): a[i] ^= a[i - 1]   (a[i] is a[i + 1] here)
RECURSIVE XorPrefix(_, _)
XorPrefix(a, i) ==
    IF i >= Len(a) THEN a
    ELSE XorPrefix([a EXCEPT ![i + 1] = BitXor(a[i + 1], a[i])], i + 1)

\* a bug: the loop runs on the caller's array, binary = gray without .copy()
GrayToBinaryInPlace(gray) ==
    [gray |-> XorPrefix(gray, 1), binary |-> XorPrefix(gray, 1)]

\* a bug: each bit is XORed with the previous input bit, not the previous output
GrayToBinaryPrevInput(gray) ==
    [gray   |-> gray,
     binary |-> [i \in 1..Len(gray) |->
                    IF i = 1 THEN gray[1] ELSE BitXor(gray[i], gray[i - 1])]]

\* GrayEncoding.gray_to_binary: the caller's array after the call, and the
\* array returned (a copy of gray, accumulated in place)
gray_to_binary(gray) ==
    [gray |-> gray, binary |-> XorPrefix(gray, 1)]

\* x_min + num / (2**length - 1) * (x_max - x_min)
Scaled(e, n) ==
    FAdd(e.x_min, FMul(IntTrueDiv(n, Pow2(e.length) - 1), FSub(e.x_max, e.x_min)))

\* the last three lines of both decode methods, on the array of binary bits
DecodeBits(e, bits_array) ==
    LET p == ParseInt2(turn_to_bits(bits_array))
    IN  IF p.err # "none"
        THEN [err |-> p.err, num |-> <<>>, value |-> <<>>]
        ELSE [err |-> "none", num |-> <<p.val>>, value |-> <<Scaled(e, p.val)>>]

(* the inputs *)
Symbols == {0, 1, 2, 10, -1}
Bits == {0, 1}
SeqsUpTo(S, n) == UNION {[1..k -> S] : k \in 0..n}
Chromosomes == SeqsUpTo(Symbols, MaxLen)
\* x_min, x_max in quarters: [0, 15], [1, 2], [-32, 0.75]
Quarter(q) == q * (Unit \div 4)
Ranges == {<<Quarter(0), Quarter(60)>>, <<Quarter(4), Quarter(8)>>,
           <<Quarter(-128), Quarter(3)>>}
Encodings == [kind : {"Binary", "Gray"}, length : 1..MaxLen,
              x_min : {r[1] : r \in Ranges}, x_max : {r[2] : r \in Ranges}]

NoSelection ==
    /\ sel = [kind |-> "Roulette", gamma |-> 0]
    /\ individuals = <<>>
    /\ fitness = <<>>
    /\ cutoff = <<>>
    /\ top_idx = <<>>
    /\ chosen = <<>>
    /\ result = <<>>

\* an encoding object constructed with length >= 1 and x_min < x_max, and a
\* chromosome array of the caller
EncInit ==
    /\ enc \in {e \in Encodings : <<e.x_min, e.x_max>> \in Ranges}
    /\ chromosome \in Chromosomes
    /\ binary = <<>>
    /\ num = <<>>
    /\ value = <<>>
    /\ op = "init"
    /\ err = "none"
    /\ NoSelection

\* BinaryEncoding.decode(chromosome)
BinaryDecode ==
    /\ enc.kind = "Binary"
    /\ LET r == DecodeBits(enc, chromosome)
       IN  /\ num' = r.num
           /\ value' = r.value
           /\ err' = r.err
    /\ binary' = <<>>
    /\ op' = "decode"
    /\ UNCHANGED <<enc, chromosome>>
    /\ UNCHANGED selVars

\* GrayEncoding.decode(chromosome)
GrayDecode ==
    /\ enc.kind = "Gray"
    /\ LET g == gray_to_binary(chromosome)
           r == DecodeBits(enc, g.binary)
       IN  /\ chromosome' = g.gray
           /\ binary' = g.binary
           /\ num' = r.num
           /\ value' = r.value
           /\ err' = r.err
    /\ op' = "decode"
    /\ UNCHANGED enc
    /\ UNCHANGED selVars

\* GrayEncoding.gray_to_binary(chromosome), the static method called directly
GrayToBinary ==
    /\ LET g == gray_to_binary(chromosome)
       IN  /\ chromosome' = g.gray
           /\ binary' = g.binary
    /\ num' = <<>>
    /\ value' = <<>>
    /\ err' = "none"
    /\ op' = "gray_to_binary"
    /\ UNCHANGED enc
    /\ UNCHANGED selVars

EncNext == BinaryDecode \/ GrayDecode \/ GrayToBinary

EncSpec == EncInit /\ [][EncNext]_vars

(* ------------------------------ selection ------------------------------ *)
Range(f) == {f[i] : i \in DOMAIN f}

\* fitness - np.min(fitness) + 1e-9 is positive at every index, so probs is too:
\* the indices generator.choice(len(probs), p=probs) can draw
RouletteSupport(f) ==
    {i \in 0..(Len(f) - 1) :
        f[i + 1] - (CHOOSE m \in Range(f) : \A x \in Range(f) : m <= x) >= 0}

\* np.argsort(fitness): the indices 0..len-1 in ascending order of fitness.  The
\* default kind, quicksort, is not stable: equal values come in any order.
ArgSorts(f) ==
    {p \in [1..Len(f) -> 0..(Len(f) - 1)] :
        /\ \A i, j \in 1..Len(f) : i # j => p[i] # p[j]
        /\ \A i \in 1..(Len(f) - 1) : f[p[i] + 1] <= f[p[i + 1] + 1]}

\* a[start:] of Python: a negative start counts from the end, and is clipped
SliceFrom(a, start) ==
    LET s == IF start < 0
             THEN (IF Len(a) + start < 0 THEN 0 ELSE Len(a) + start)
             ELSE (IF start > Len(a) THEN Len(a) ELSE start)
    IN  SubSeq(a, s + 1, Len(a))

\* int(np.ceil(self.gamma / 100 * n))
Cutoff(gamma, n) == CeilInt(FMul(FDivInt(gamma, 100), FloatOf(n)))

\* individuals[i].clone(): class Individual defines __init__ only, so the
\* attribute lookup raises
Clone(ind) == [err |-> "AttributeError", obj |-> ind]

\* [individuals[i].clone() for i in idx]
RECURSIVE CloneEach(_, _, _)
CloneEach(inds, idx, acc) ==
    IF idx = <<>> THEN [err |-> "none", list |-> <<acc>>]
    ELSE IF Head(idx) >= Len(inds) THEN [err |-> "IndexError", list |-> <<>>]
    ELSE LET c == Clone(inds[Head(idx) + 1])
         IN  IF c.err # "none" THEN [err |-> c.err, list |-> <<>>]
             ELSE CloneEach(inds, Tail(idx), Append(acc, c.obj))

(* the inputs *)
FitnessValues == {1, 2, 3}
\* gamma: the smallest positive float, 50, 100, and 0, 150, -50
Gammas == {1, 50 * Unit, 100 * Unit, 0, 150 * Unit, -50 * Unit}
Population(n) == [i \in 1..n |-> i]

NoEncoding ==
    /\ enc = [kind |-> "Binary", length |-> 1, x_min |-> Quarter(0), x_max |-> Quarter(4)]
    /\ chromosome = <<>>
    /\ binary = <<>>
    /\ num = <<>>
    /\ value = <<>>

\* a RouletteSelection object, and a population and a fitness vector of the caller
SelInit ==
    /\ sel = [kind |-> "Roulette", gamma |-> 0]
    /\ individuals \in {Population(n) : n \in 1..MaxPop}
    /\ fitness \in UNION {[1..k -> FitnessValues] : k \in 1..MaxPop}
    /\ cutoff = <<>>
    /\ top_idx = <<>>
    /\ chosen = <<>>
    /\ result = <<>>
    /\ op = "init"
    /\ err = "none"
    /\ NoEncoding

\* RouletteSelection()
NewRouletteSelection ==
    /\ sel' = [kind |-> "Roulette", gamma |-> 0]
    /\ cutoff' = <<>>
    /\ top_idx' = <<>>
    /\ chosen' = <<>>
    /\ result' = <<>>
    /\ op' = "RouletteSelection"
    /\ err' = "none"
    /\ UNCHANGED <<individuals, fitness>>
    /\ UNCHANGED encVars

\* ThresholdSelection(gamma)
NewThresholdSelection ==
    \E gamma \in Gammas :
        /\ sel' = [kind |-> "Threshold", gamma |-> gamma]
        /\ cutoff' = <<>>
        /\ top_idx' = <<>>
        /\ chosen' = <<>>
        /\ result' = <<>>
        /\ op' = "ThresholdSelection"
        /\ err' = "none"
        /\ UNCHANGED <<individuals, fitness>>
        /\ UNCHANGED encVars

\* RouletteSelection.select(individuals, fitness)
RouletteSelect ==
    /\ sel.kind = "Roulette"
    /\ cutoff' = <<>>
    /\ top_idx' = <<>>
    /\ op' = "select"
    /\ IF Len(fitness) # Len(individuals)
       THEN \* generator.choice: 'a' and 'p' must have same size
            /\ chosen' = <<>>
            /\ result' = <<>>
            /\ err' = "ValueError"
       ELSE \E idx \in [1..Len(individuals) -> RouletteSupport(fitness)] :
                LET r == CloneEach(individuals, idx, <<>>)
                IN  /\ chosen' = idx
                    /\ result' = r.list
                    /\ err' = r.err
    /\ UNCHANGED <<sel, individuals, fitness>>
    /\ UNCHANGED encVars

\* ThresholdSelection.select(individuals, fitness)
ThresholdSelect ==
    /\ sel.kind = "Threshold"
    /\ op' = "select"
    /\ LET n == Len(individuals)
           c == Cutoff(sel.gamma, n)
       IN  /\ cutoff' = <<c>>
           /\ \E p \in ArgSorts(fitness) :
                  LET top == SliceFrom(p, -c)
                  IN  /\ top_idx' = top
                      /\ IF top = <<>>
                         THEN \* generator.choice: 'a' cannot be empty
                              /\ chosen' = <<>>
                              /\ result' = <<>>
                              /\ err' = "ValueError"
                         ELSE \E ch \in [1..n -> Range(top)] :
                                  LET r == CloneEach(individuals, ch, <<>>)
                                  IN  /\ chosen' = ch
                                      /\ result' = r.list
                                      /\ err' = r.err
    /\ UNCHANGED <<sel, individuals, fitness>>
    /\ UNCHANGED encVars

SelNext ==
    \/ NewRouletteSelection
    \/ NewThresholdSelection
    \/ RouletteSelect
    \/ ThresholdSelect

SelSpec == SelInit /\ [][SelNext]_vars

Init == EncInit \/ SelInit
Next == EncNext \/ SelNext
Spec == Init /\ [][Next]_vars

(* ------------------------------- claims -------------------------------- *)
IsBits(c) == \A i \in 1..Len(c) : c[i] \in Bits
WellFormed == Len(chromosome) = enc.length /\ IsBits(chromosome)
Decoded == op = "decode"

\* the integer a bit sequence denotes, most significant bit first
RECURSIVE MsbFirst(_)
MsbFirst(c) == IF c = <<>> THEN 0 ELSE c[Len(c)] + 2 * MsbFirst(SubSeq(c, 1, Len(c) - 1))

\* the standard binary-to-Gray transform: g[0] = b[0], g[i] = b[i] XOR b[i-1]
binary_to_gray(b) ==
    [i \in 1..Len(b) |-> IF i = 1 THEN b[1] ELSE (b[i] + b[i - 1]) % 2]

(* C1: decode of a chromosome of exactly `length` bits returns a value v with
   x_min <= v <= x_max, the decoded integer num being in 0 .. 2^length - 1. *)
C1_DecodeWithinRange ==
    (Decoded /\ WellFormed) =>
        /\ err = "none"
        /\ num # <<>> /\ 0 <= num[1] /\ num[1] <= Pow2(enc.length) - 1
        /\ value # <<>> /\ enc.x_min <= value[1] /\ value[1] <= enc.x_max

\* the part of C1 about the integer: it holds
NumWithinRange ==
    (Decoded /\ WellFormed) =>
        err = "none" /\ num # <<>> /\ 0 <= num[1] /\ num[1] <= Pow2(enc.length) - 1

(* C2: BinaryEncoding.decode reads the bits most significant first, returns
   exactly x_min for the all-zero chromosome (num = 0) and exactly x_max for
   the all-one chromosome (num = 2^length - 1). *)
C2_BinaryEndpoints ==
    (Decoded /\ enc.kind = "Binary" /\ WellFormed) =>
        /\ num = <<MsbFirst(chromosome)>>
        /\ (\A i \in 1..Len(chromosome) : chromosome[i] = 0) =>
               (num = <<0>> /\ value = <<enc.x_min>>)
        /\ (\A i \in 1..Len(chromosome) : chromosome[i] = 1) =>
               (num = <<Pow2(enc.length) - 1>> /\ value = <<enc.x_max>>)

\* the part of C2 about the integer and the lower end: it holds
BinaryNumMsbFirst ==
    (Decoded /\ enc.kind = "Binary" /\ WellFormed) =>
        /\ num = <<MsbFirst(chromosome)>>
        /\ (\A i \in 1..Len(chromosome) : chromosome[i] = 0) => value = <<enc.x_min>>

(* C3: gray_to_binary inverts the binary-to-Gray transform: for every bit
   sequence b, gray_to_binary(binary_to_gray(b)) = b; its first output bit is
   the first input bit and each later output bit is the input bit XOR the
   previous output bit. *)
C3_GrayRoundTrip ==
    (op = "gray_to_binary" /\ IsBits(chromosome)) =>
        /\ \A b \in SeqsUpTo(Bits, MaxLen) :
               binary_to_gray(b) = chromosome => binary = b
        /\ Len(binary) = Len(chromosome)
        /\ \A i \in 1..Len(binary) :
               binary[i] = IF i = 1 THEN chromosome[1]
                           ELSE (chromosome[i] + binary[i - 1]) % 2

\* a Gray sequence whose third bit decodes differently against the previous
\* output bit (0) than against the previous input bit (1)
C3_Witness ==
    /\ op = "gray_to_binary"
    /\ Len(chromosome) >= 3
    /\ chromosome = binary_to_gray(binary)
    /\ chromosome[1] = 1 /\ chromosome[2] = 1 /\ chromosome[3] = 1
    /\ binary[2] = 0 /\ binary[3] = 1

(* C6: decode fails with InvalidChromosomeError and returns no value when the
   chromosome's length differs from the configured length or a symbol is not
   0 or 1. *)
C6_InvalidChromosomeRejected ==
    (Decoded /\ ~WellFormed) => (err = "InvalidChromosomeError" /\ value = <<>>)

(* C10: decode and gray_to_binary leave the caller's chromosome as it was, and
   decode called again on the same chromosome returns the same result. *)
C10_ChromosomeUnchanged ==
    [][ op' \in {"decode", "gray_to_binary"} =>
            /\ chromosome' = chromosome
            /\ (op = "decode" /\ op' = "decode") =>
                   (value' = value /\ num' = num /\ err' = err) ]_vars

\* a Gray decode that returned, of a chromosome the conversion changes
C10_Witness ==
    /\ Decoded /\ enc.kind = "Gray" /\ WellFormed
    /\ err = "none" /\ value # <<>>
    /\ binary # chromosome

Selected == op = "select"
N == Len(individuals)
ValidGamma(g) == 0 < g /\ g <= 100 * Unit
ValidStrategy == sel.kind = "Threshold" => ValidGamma(sel.gamma)

\* ceil(gamma / 100 * n) in exact arithmetic
ExactCutoff(g, n) == -((-(g * n)) \div (100 * Unit))

\* i is among the c highest fitness values: fewer than c values are higher
AmongTop(i, c) ==
    Cardinality({j \in 1..Len(fitness) : fitness[j] > fitness[i + 1]}) < c

(* C4: select, called with as many fitness values as individuals (N >= 1) and,
   for Threshold, 0 < gamma <= 100, returns exactly N individuals, each the
   clone of the input individual at a drawn index in 0 .. N-1. *)
C4_SelectReturnsN ==
    (Selected /\ Len(fitness) = N /\ ValidStrategy) =>
        /\ err = "none"
        /\ result # <<>>
        /\ Len(result[1]) = N
        /\ Len(chosen) = N
        /\ \A k \in 1..Len(chosen) : chosen[k] \in 0..(N - 1)

\* the part of C4 about the draws: N indices in 0 .. N-1 are drawn
DrawsWithinPopulation ==
    (Selected /\ Len(fitness) = N /\ ValidStrategy /\ chosen # <<>>) =>
        (Len(chosen) = N /\ \A k \in 1..N : chosen[k] \in 0..(N - 1))

(* C5: ThresholdSelection.select with 0 < gamma <= 100 uses
   cutoff = ceil(gamma/100 * N), 1 <= cutoff <= N, and every draw is an index
   whose fitness is among the cutoff highest fitness values. *)
C5_ThresholdTopOnly ==
    (Selected /\ sel.kind = "Threshold" /\ ValidGamma(sel.gamma) /\ Len(fitness) = N) =>
        /\ cutoff = <<ExactCutoff(sel.gamma, N)>>
        /\ 1 <= cutoff[1] /\ cutoff[1] <= N
        /\ \A k \in 1..Len(chosen) : AmongTop(chosen[k], cutoff[1])

\* the part of C5 that holds: when the computed cutoff is at least 1, the draws
\* stay among the cutoff highest fitness values
DrawsAmongComputedTop ==
    (Selected /\ sel.kind = "Threshold" /\ Len(fitness) = N
        /\ 1 <= cutoff[1] /\ cutoff[1] <= N) =>
        \A k \in 1..Len(chosen) : AmongTop(chosen[k], cutoff[1])

(* C7: select called with a fitness vector whose length differs from that of
   the population raises DimensionMismatchError and returns nothing. *)
C7_DimensionMismatchRejected ==
    (Selected /\ Len(fitness) # N) =>
        (err = "DimensionMismatchError" /\ result = <<>>)

(* C8: every individual select returns is an independent clone: an object of
   its own, shared neither with the input population nor with another
   returned individual, also when an index is drawn twice. *)
C8_IndependentClones ==
    (Selected /\ Len(fitness) = N /\ ValidStrategy) =>
        /\ result # <<>>
        /\ \A j \in 1..Len(result[1]) :
               /\ result[1][j] \notin Range(individuals)
               /\ \A k \in 1..Len(result[1]) : k # j => result[1][k] # result[1][j]

(* C9: ThresholdSelection(gamma) with gamma outside (0, 100] raises
   InvalidConfigurationError, so select never runs with such a gamma, nor with
   cutoff = 0 or cutoff > N. *)
C9_InvalidGammaRejected ==
    /\ (op = "ThresholdSelection" /\ ~ValidGamma(sel.gamma)) =>
           err = "InvalidConfigurationError"
    /\ (Selected /\ sel.kind = "Threshold") =>
           (ValidGamma(sel.gamma) /\ 1 <= cutoff[1] /\ cutoff[1] <= N)

====
